---- MODULE Spec2Model ----
(***************************************************************************)
(* Dots and Boxes (main.py): the board, the placement of a segment, the    *)
(* move generator, the evaluator, the two searches and the turn loop.      *)
(*                                                                         *)
(* A box is a record [e, o]: e is the segment encoding (8 up, 4 right,     *)
(* 2 down, 1 left, kept as the integer the code adds to) and o the owner   *)
(* symbol (" " while nobody owns it).  A Game object is a record           *)
(* [board, score_min, score_max, filled_box, last_segment].  A value that  *)
(* may be None is a sequence of length 0 (None) or 1.                      *)
(***************************************************************************)
EXTENDS Integers, Sequences, FiniteSets, TLC

\* Boards of at most MaxBoxes boxes are explored (LINES * COLUMNS <= MaxBoxes).
MaxBoxes == 2

\* Game.VAR: the heuristic variant the program is built with.
VAR == 2

\* The difficulty levels read_difficulty accepts ('1', '2', '3').
MaxDifficulty == 3

VARIABLES
    LINES,           \* Game.LINES   (boxes per column = dots - 1)
    COLUMNS,         \* Game.COLUMNS
    MIN,             \* Game.MIN: the human's symbol
    MAX,             \* Game.MAX: the computer's symbol
    algorithm_type,  \* "1" minimax, "2" alpha-beta
    game,            \* state.game of the live State
    current_player,  \* state.current_player of the live State
    depth,           \* state.depth of the live State (max_depth)
    pc,              \* position in run_algorithm: "turn" (top of the loop),
                     \* "moved" (the turn is played), "done", "quit", "crashed"
    msg,             \* what check_position last reported
    node             \* the call of the search in progress that is followed:
                     \* <<>> (no search) or <<[state, alpha, beta]>>

vars == <<LINES, COLUMNS, MIN, MAX, algorithm_type, game, current_player,
          depth, pc, msg, node>>

config == <<LINES, COLUMNS, MIN, MAX, algorithm_type, depth>>

Symbols == {"X", "O"}

Dims == {d \in (1..MaxBoxes) \X (1..MaxBoxes) : d[1] * d[2] <= MaxBoxes}

Boxes == (0..(LINES - 1)) \X (0..(COLUMNS - 1))

----------------------------------------------------------------------------
(* Game.__init__ *)

NoSegment == [set |-> FALSE, i |-> 0, j |-> 0, player |-> "None"]

NewGame ==
    [board        |-> [b \in Boxes |-> [e |-> 0, o |-> " "]],
     score_min    |-> 0,
     score_max    |-> 0,
     filled_box   |-> FALSE,
     last_segment |-> NoSegment]

\* x & d for a one-bit mask d
Bit(x, d) == (x \div d) % 2 = 1

in_scope(i, j) == 0 <= i /\ i < LINES /\ 0 <= j /\ j < COLUMNS

\* complete_box with the owner written as Game.MIN instead of player
complete_box_owner_min(g, d, i, j, player) ==
    LET e1   == g.board[<<i, j>>].e + d
        full == e1 % 16 = 15
    IN  [board        |-> [g.board EXCEPT ![<<i, j>>] =
                              [e |-> e1, o |-> IF full THEN MIN ELSE @.o]],
         score_min    |-> IF full /\ player = MIN THEN g.score_min + 1 ELSE g.score_min,
         score_max    |-> IF full /\ player # MIN THEN g.score_max + 1 ELSE g.score_max,
         filled_box   |-> IF full THEN TRUE ELSE g.filled_box,
         last_segment |-> [set |-> TRUE, i |-> i, j |-> j, player |-> player]]

\* complete_box without the else branch that counts a box for MAX
complete_box_no_max(g, d, i, j, player) ==
    LET e1   == g.board[<<i, j>>].e + d
        full == e1 % 16 = 15
    IN  [board        |-> [g.board EXCEPT ![<<i, j>>] =
                              [e |-> e1, o |-> IF full THEN player ELSE @.o]],
         score_min    |-> IF full /\ player = MIN THEN g.score_min + 1 ELSE g.score_min,
         score_max    |-> g.score_max,
         filled_box   |-> IF full THEN TRUE ELSE g.filled_box,
         last_segment |-> [set |-> TRUE, i |-> i, j |-> j, player |-> player]]

\* complete_box with the test of the player reversed
complete_box_reversed(g, d, i, j, player) ==
    LET e1   == g.board[<<i, j>>].e + d
        full == e1 % 16 = 15
    IN  [board        |-> [g.board EXCEPT ![<<i, j>>] =
                              [e |-> e1, o |-> IF full THEN player ELSE @.o]],
         score_min    |-> IF full /\ player # MIN THEN g.score_min + 1 ELSE g.score_min,
         score_max    |-> IF full /\ player = MIN THEN g.score_max + 1 ELSE g.score_max,
         filled_box   |-> IF full THEN TRUE ELSE g.filled_box,
         last_segment |-> [set |-> TRUE, i |-> i, j |-> j, player |-> player]]

\* complete_box with the mask 7 in place of 15: the up side is not looked at
complete_box_mask7(g, d, i, j, player) ==
    LET e1   == g.board[<<i, j>>].e + d
        full == e1 % 8 = 7
    IN  [board        |-> [g.board EXCEPT ![<<i, j>>] =
                              [e |-> e1, o |-> IF full THEN player ELSE @.o]],
         score_min    |-> IF full /\ player = MIN THEN g.score_min + 1 ELSE g.score_min,
         score_max    |-> IF full /\ player # MIN THEN g.score_max + 1 ELSE g.score_max,
         filled_box   |-> IF full THEN TRUE ELSE g.filled_box,
         last_segment |-> [set |-> TRUE, i |-> i, j |-> j, player |-> player]]

complete_box(g, d, i, j, player) ==
    LET e1   == g.board[<<i, j>>].e + d
        full == e1 % 16 = 15
    IN  [board        |-> [g.board EXCEPT ![<<i, j>>] =
                              [e |-> e1, o |-> IF full THEN player ELSE @.o]],
         score_min    |-> IF full /\ player = MIN THEN g.score_min + 1 ELSE g.score_min,
         score_max    |-> IF full /\ player # MIN THEN g.score_max + 1 ELSE g.score_max,
         filled_box   |-> IF full THEN TRUE ELSE g.filled_box,
         last_segment |-> [set |-> TRUE, i |-> i, j |-> j, player |-> player]]

\* add_segment that forgets the box on the other side of the segment
add_segment_one_box(g, d, i, j, player) ==
    IF ~Bit(g.board[<<i, j>>].e, d[1])
    THEN <<complete_box(g, d[1], i, j, player)>>
    ELSE <<>>

\* <<>> is None (the segment is already drawn), <<g>> the updated game.
add_segment(g, d, i, j, player) ==
    IF ~Bit(g.board[<<i, j>>].e, d[1])
    THEN LET g1 == complete_box(g, d[1], i, j, player)
         IN  IF in_scope(i + d[2], j + d[3])
             THEN <<complete_box(g1, d[4], i + d[2], j + d[3], player)>>
             ELSE <<g1>>
    ELSE <<>>

Up    == <<8, -1, 0, 2>>
Left  == <<1, 0, -1, 4>>
Right == <<4, 0, 1, 1>>
Down  == <<2, 1, 0, 8>>

----------------------------------------------------------------------------
(* Game.final *)

\* final with >= in the comparison of the scores, made before the tie test
final_ge(g) ==
    IF g.score_min + g.score_max # LINES * COLUMNS THEN "False"
    ELSE IF g.score_min >= g.score_max THEN MIN
    ELSE IF g.score_min = g.score_max THEN "tie"
    ELSE MAX

final(g) ==
    IF g.score_min + g.score_max # LINES * COLUMNS THEN "False"
    ELSE IF g.score_min = g.score_max THEN "tie"
    ELSE IF g.score_min > g.score_max THEN MIN
    ELSE MAX

is_final(g) == final(g) # "False"

----------------------------------------------------------------------------
(* Game.moves: the generator visits every segment once, in this order:     *)
(* per line i, for every column the up and the left segment of box (i, j), *)
(* then the right segment of the last box of the line; at the end the down *)
(* segments of the last line.                                              *)

RowLen == 2 * COLUMNS + 1

NumSegments == LINES * RowLen + COLUMNS

\* MovePos with the right segment taken at the first box of the line
MovePos_first_column(n) ==
    IF n <= LINES * RowLen
    THEN LET i == (n - 1) \div RowLen
             k == (n - 1) % RowLen
         IN  IF k = RowLen - 1 THEN <<Right, i, 0>>
             ELSE IF k % 2 = 0 THEN <<Up, i, k \div 2>>
             ELSE <<Left, i, k \div 2>>
    ELSE <<Down, LINES - 1, n - LINES * RowLen - 1>>

\* the n-th position the generator tries: <<d, i, j>>
MovePos(n) ==
    IF n <= LINES * RowLen
    THEN LET i == (n - 1) \div RowLen
             k == (n - 1) % RowLen
         IN  IF k = RowLen - 1 THEN <<Right, i, COLUMNS - 1>>
             ELSE IF k % 2 = 0 THEN <<Up, i, k \div 2>>
             ELSE <<Left, i, k \div 2>>
    ELSE <<Down, LINES - 1, n - LINES * RowLen - 1>>

\* the list Game.moves builds from position n on: one entry per position,
\* None (<<>>) included
RECURSIVE MovesFrom(_, _, _)
MovesFrom(g, player, n) ==
    IF n > NumSegments THEN <<>>
    ELSE LET p == MovePos(n)
         IN  <<add_segment(g, p[1], p[2], p[3], player)>> \o MovesFrom(g, player, n + 1)

Game_moves(g, player) == MovesFrom(g, player, 1)

----------------------------------------------------------------------------
(* class State: [game, current_player, depth] *)

State(g, player, dp) == [game |-> g, current_player |-> player, depth |-> dp]

\* next_player that always passes the turn
next_player_alternate(s) ==
    IF s.current_player = MIN THEN MAX ELSE MIN

next_player(s) ==
    IF (s.current_player = MIN /\ ~s.game.filled_box)
       \/ (s.current_player = MAX /\ s.game.filled_box)
    THEN MAX ELSE MIN

RECURSIVE KeepGames(_, _, _)
KeepGames(s, games, n) ==
    IF n > Len(games) THEN <<>>
    ELSE LET a == games[n]
         IN  IF a = <<>> THEN KeepGames(s, games, n + 1)
             ELSE <<State(a[1],
                          IF ~a[1].filled_box THEN next_player(s) ELSE s.current_player,
                          s.depth - 1)>>
                  \o KeepGames(s, games, n + 1)

State_moves(s) == KeepGames(s, Game_moves(s.game, s.current_player), 1)

----------------------------------------------------------------------------
(* The heuristics.  A result is <<score>>, or <<>> when the code raises.   *)

open_boxes_1(g, player) ==
    IF player = MIN THEN <<LINES * COLUMNS - g.score_max>>
    ELSE <<LINES * COLUMNS - g.score_min>>

Directions == <<Up, Left, Right, Down>>

\* the for loop of open_boxes_2 from direction k on: acc = [g, count]
RECURSIVE TryDirections(_, _, _)
TryDirections(acc, player, k) ==
    IF k > Len(Directions) THEN acc
    ELSE LET a == add_segment(acc.g, Directions[k],
                              acc.g.last_segment.i, acc.g.last_segment.j, player)
         IN  TryDirections(IF a # <<>>
                           THEN [g |-> a[1], count |-> acc.count + 1]
                           ELSE acc,
                           player, k + 1)

\* the while loop of open_boxes_2
RECURSIVE Chain(_, _, _, _)
Chain(g, player, score, count) ==
    IF count # 1 THEN <<score>>
    ELSE IF ~g.last_segment.set THEN <<>>       \* board[None]: TypeError
    ELSE LET r == TryDirections([g |-> g, count |-> 0], player, 1)
         IN  Chain(r.g, player, score + 1, r.count)

open_boxes_2(g, player) ==
    LET score == IF player = MIN THEN g.score_min ELSE g.score_max
        count == IF (g.last_segment.player = player /\ g.filled_box)
                    \/ (g.last_segment.player # player /\ ~g.filled_box)
                 THEN 1 ELSE 0
    IN  Chain(g, player, score, count)

open_boxes_var(var, g, player) ==
    IF var = 1 THEN open_boxes_1(g, player) ELSE open_boxes_2(g, player)

open_boxes(g, player) == open_boxes_var(VAR, g, player)

WinScore == 100000

\* estimate_score with the sign of the MIN sentinel lost
estimate_score_var_sign(var, g) ==
    LET f == final(g)
    IN  IF f = MAX THEN <<WinScore>>
        ELSE IF f = MIN THEN <<WinScore>>
        ELSE IF f = "tie" THEN <<0>>
        ELSE LET hmax == open_boxes_var(var, g, MAX)
             IN  IF hmax = <<>> THEN <<>>
                 ELSE LET hmin == open_boxes_var(var, g, MIN)
                      IN  IF hmin = <<>> THEN <<>> ELSE <<hmax[1] - hmin[1]>>

estimate_score_var(var, g) ==
    LET f == final(g)
    IN  IF f = MAX THEN <<WinScore>>
        ELSE IF f = MIN THEN <<0 - WinScore>>
        ELSE IF f = "tie" THEN <<0>>
        ELSE LET hmax == open_boxes_var(var, g, MAX)
             IN  IF hmax = <<>> THEN <<>>
                 ELSE LET hmin == open_boxes_var(var, g, MIN)
                      IN  IF hmin = <<>> THEN <<>> ELSE <<hmax[1] - hmin[1]>>

estimate_score(g) == estimate_score_var(VAR, g)

----------------------------------------------------------------------------
(* The searches.  The result of a call on a State is a record:             *)
(*   raised   the call ended in an exception                               *)
(*   scored   state.score was assigned (False: it is still None)           *)
(*   score    state.score                                                  *)
(*   next     state.next_state, <<>> (None) or <<child State>>             *)
(*   moves    len(state.possible_moves)                                    *)
(*   visited  the number of States the call scored or tried to score       *)
(*   calls    alpha_beta: the <<alpha, beta>> of the call made on each     *)
(*            child visited, in order                                      *)

Leaf(s) ==
    LET est == estimate_score(s.game)
    IN  [raised  |-> est = <<>>,
         scored  |-> est # <<>>,
         score   |-> IF est = <<>> THEN 0 ELSE est[1],
         next    |-> <<>>,
         moves   |-> 0,
         visited |-> 1,
         calls   |-> <<>>]

Raise(moves, visited, calls) ==
    [raised |-> TRUE, scored |-> FALSE, score |-> 0, next |-> <<>>,
     moves |-> moves, visited |-> visited, calls |-> calls]

is_leaf(s) == s.depth = 0 \/ is_final(s.game)

RECURSIVE min_max(_)
RECURSIVE MinMaxScan(_, _, _, _)

\* MinMaxScan that keeps the last child with the best score
MinMaxScan_last_tie(s, kids, k, acc) ==
    IF k > Len(kids) THEN acc
    ELSE LET r == min_max(kids[k])
             better == IF acc.best = <<>> THEN TRUE
                       ELSE IF s.current_player = MAX THEN r.score >= acc.best[1]
                       ELSE r.score <= acc.best[1]
         IN  MinMaxScan(s, kids, k + 1,
                 [raised  |-> acc.raised \/ r.raised,
                  best    |-> IF better THEN <<r.score>> ELSE acc.best,
                  next    |-> IF better THEN <<kids[k]>> ELSE acc.next,
                  visited |-> acc.visited + r.visited])

\* [min_max(x) for x in possible_moves] followed by max / min with key score:
\* acc = [raised, best (<<>> or <<score>>), next, visited]; the first extremal
\* child is kept.
MinMaxScan(s, kids, k, acc) ==
    IF k > Len(kids) THEN acc
    ELSE LET r == min_max(kids[k])
             better == IF acc.best = <<>> THEN TRUE
                       ELSE IF s.current_player = MAX THEN r.score > acc.best[1]
                       ELSE r.score < acc.best[1]
         IN  MinMaxScan(s, kids, k + 1,
                 [raised  |-> acc.raised \/ r.raised,
                  best    |-> IF better THEN <<r.score>> ELSE acc.best,
                  next    |-> IF better THEN <<kids[k]>> ELSE acc.next,
                  visited |-> acc.visited + r.visited])

min_max(s) ==
    IF is_leaf(s) THEN Leaf(s)
    ELSE LET kids == State_moves(s)
             acc  == MinMaxScan(s, kids, 1,
                         [raised |-> FALSE, best |-> <<>>, next |-> <<>>, visited |-> 1])
         IN  IF acc.raised \/ acc.best = <<>>       \* max([]) raises ValueError
             THEN Raise(Len(kids), acc.visited, <<>>)
             ELSE [raised  |-> FALSE,
                   scored  |-> TRUE,
                   score   |-> acc.best[1],
                   next    |-> acc.next,
                   moves   |-> Len(kids),
                   visited |-> acc.visited,
                   calls   |-> <<>>]

RECURSIVE alpha_beta(_, _, _)
RECURSIVE alpha_beta_state(_, _, _, _)

Minimum(a, b) == IF a <= b THEN a ELSE b
Maximum(a, b) == IF a >= b THEN a ELSE b

\* NewAlpha with max, as alpha-beta pruning is usually written
NewAlpha_max(s, alpha, sc) == IF s.current_player = MAX THEN Maximum(alpha, sc) ELSE alpha

\* the alpha and the beta the loop of alpha_beta_state continues with after
\* a child scored sc
NewAlpha(s, alpha, sc) == IF s.current_player = MAX THEN Minimum(alpha, sc) ELSE alpha
NewBeta(s, beta, sc)   == IF s.current_player = MAX THEN beta ELSE Maximum(beta, sc)

\* the test that ends the loop of alpha_beta_state
Cutoff(alpha, beta) == alpha >= beta

ABStart(alpha, beta) ==
    [alpha |-> alpha, beta |-> beta, cur |-> <<>>, next |-> <<>>,
     visited |-> 1, raised |-> FALSE, broke |-> FALSE, at |-> 1, calls |-> <<>>]

\* alpha_beta_state that keeps the last child with the best score
alpha_beta_state_last_tie(s, kids, stop, acc) ==
    IF acc.at >= stop \/ acc.at > Len(kids) \/ acc.raised \/ acc.broke THEN acc
    ELSE LET r  == alpha_beta(acc.alpha, acc.beta, kids[acc.at])
             better == IF acc.cur = <<>> THEN TRUE
                       ELSE IF s.current_player = MAX THEN acc.cur[1] <= r.score
                       ELSE acc.cur[1] >= r.score
             a1 == NewAlpha(s, acc.alpha, r.score)
             b1 == NewBeta(s, acc.beta, r.score)
         IN  IF r.raised \/ ~r.scored
             THEN [acc EXCEPT !.raised = TRUE, !.visited = @ + r.visited,
                              !.calls = Append(@, <<acc.alpha, acc.beta>>)]
             ELSE alpha_beta_state(s, kids, stop,
                     [alpha   |-> a1,
                      beta    |-> b1,
                      cur     |-> IF better THEN <<r.score>> ELSE acc.cur,
                      next    |-> IF better THEN <<kids[acc.at]>> ELSE acc.next,
                      visited |-> acc.visited + r.visited,
                      raised  |-> FALSE,
                      broke   |-> Cutoff(a1, b1),
                      at      |-> acc.at + 1,
                      calls   |-> Append(acc.calls, <<acc.alpha, acc.beta>>)])

\* the for loop of alpha_beta_state, from child acc.at up to child stop - 1:
\* acc.cur is current_score (<<>>: still -inf / +inf), acc.broke: the loop
\* was left by break, acc.calls: the <<alpha, beta>> each child visited so
\* far was called with.
alpha_beta_state(s, kids, stop, acc) ==
    IF acc.at >= stop \/ acc.at > Len(kids) \/ acc.raised \/ acc.broke THEN acc
    ELSE LET r  == alpha_beta(acc.alpha, acc.beta, kids[acc.at])
             better == IF acc.cur = <<>> THEN TRUE
                       ELSE IF s.current_player = MAX THEN acc.cur[1] < r.score
                       ELSE acc.cur[1] > r.score
             a1 == NewAlpha(s, acc.alpha, r.score)
             b1 == NewBeta(s, acc.beta, r.score)
         IN  IF r.raised \/ ~r.scored            \* min(alpha, None): TypeError
             THEN [acc EXCEPT !.raised = TRUE, !.visited = @ + r.visited,
                              !.calls = Append(@, <<acc.alpha, acc.beta>>)]
             ELSE alpha_beta_state(s, kids, stop,
                     [alpha   |-> a1,
                      beta    |-> b1,
                      cur     |-> IF better THEN <<r.score>> ELSE acc.cur,
                      next    |-> IF better THEN <<kids[acc.at]>> ELSE acc.next,
                      visited |-> acc.visited + r.visited,
                      raised  |-> FALSE,
                      broke   |-> Cutoff(a1, b1),
                      at      |-> acc.at + 1,
                      calls   |-> Append(acc.calls, <<acc.alpha, acc.beta>>)])

\* alpha_beta without the test of the depth: it searches to the end of the game
alpha_beta_no_depth(alpha, beta, s) ==
    IF is_final(s.game) THEN Leaf(s)
    ELSE IF alpha > beta
    THEN [raised |-> FALSE, scored |-> FALSE, score |-> 0, next |-> <<>>,
          moves |-> 0, visited |-> 1, calls |-> <<>>]
    ELSE LET kids == State_moves(s)
             acc  == alpha_beta_state(s, kids, Len(kids) + 1, ABStart(alpha, beta))
         IN  IF acc.raised \/ acc.next = <<>>
             THEN Raise(Len(kids), acc.visited, acc.calls)
             ELSE [raised  |-> FALSE,
                   scored  |-> TRUE,
                   score   |-> acc.cur[1],
                   next    |-> acc.next,
                   moves   |-> Len(kids),
                   visited |-> acc.visited,
                   calls   |-> acc.calls]

alpha_beta(alpha, beta, s) ==
    IF is_leaf(s) THEN Leaf(s)
    ELSE IF alpha > beta
    THEN [raised |-> FALSE, scored |-> FALSE, score |-> 0, next |-> <<>>,
          moves |-> 0, visited |-> 1, calls |-> <<>>]
    ELSE LET kids == State_moves(s)
             acc  == alpha_beta_state(s, kids, Len(kids) + 1, ABStart(alpha, beta))
         IN  IF acc.raised \/ acc.next = <<>>    \* None.score: AttributeError
             THEN Raise(Len(kids), acc.visited, acc.calls)
             ELSE [raised  |-> FALSE,
                   scored  |-> TRUE,
                   score   |-> acc.cur[1],
                   next    |-> acc.next,
                   moves   |-> Len(kids),
                   visited |-> acc.visited,
                   calls   |-> acc.calls]

\* the window computer_turn passes to alpha_beta
RootAlpha == 0 - 5000
RootBeta  == 5000

search(s, alg) ==
    IF alg = "1" THEN min_max(s) ELSE alpha_beta(RootAlpha, RootBeta, s)

----------------------------------------------------------------------------
(* Game objects as objects: a store is the sequence of the Game objects    *)
(* alive, a reference is an index into it.  complete_box assigns to the    *)
(* fields of the object it is given, so add_segment updates that object in *)
(* place; copy.deepcopy makes a new object.                                *)

\* copy.deepcopy that hands back the object itself
deepcopy_alias(store, ref) == [store |-> store, ref |-> ref]

\* copy.deepcopy(obj): [store, ref], ref the new object
deepcopy(store, ref) == [store |-> Append(store, store[ref]), ref |-> Len(store) + 1]

\* add_segment(game, ...) on the object ref: [store, ref], ref <<>> for None
add_segment_at(store, ref, d, i, j, player) ==
    LET r == add_segment(store[ref], d, i, j, player)
    IN  IF r = <<>> THEN [store |-> store, ref |-> <<>>]
        ELSE [store |-> [store EXCEPT ![ref] = r[1]], ref |-> <<ref>>]

\* Game.moves of the object self from position n on: [store, moves], moves
\* the list of references returned (<<>> for None)
RECURSIVE MovesAt(_, _, _, _)
MovesAt(store, self, player, n) ==
    IF n > NumSegments THEN [store |-> store, moves |-> <<>>]
    ELSE LET p    == MovePos(n)
             c    == deepcopy(store, self)
             a    == add_segment_at(c.store, c.ref, p[1], p[2], p[3], player)
             rest == MovesAt(a.store, self, player, n + 1)
         IN  [store |-> rest.store, moves |-> <<a.ref>> \o rest.moves]

Game_moves_at(store, self, player) == MovesAt(store, self, player, 1)

\* the while loop of open_boxes_2 on the object ref: the store it leaves
\* (it stops where the code raises)
RECURSIVE ChainAt(_, _, _, _)
ChainAt(store, ref, player, count) ==
    IF count # 1 \/ ~store[ref].last_segment.set THEN store
    ELSE LET r == TryDirections([g |-> store[ref], count |-> 0], player, 1)
         IN  ChainAt([store EXCEPT ![ref] = r.g], ref, player, r.count)

\* open_boxes_2 of the object self: the store it leaves
open_boxes_2_at(store, self, player) ==
    LET c     == deepcopy(store, self)
        g     == c.store[c.ref]
        count == IF (g.last_segment.player = player /\ g.filled_box)
                    \/ (g.last_segment.player # player /\ ~g.filled_box)
                 THEN 1 ELSE 0
    IN  ChainAt(c.store, c.ref, player, count)

----------------------------------------------------------------------------
(* Human input *)

\* find_relative_position that tests the up bit at the last line of dots
find_relative_position_up_bit(line, column, board) ==
    IF line = 2 * LINES
    THEN IF ~Bit(board[<<line \div 2 - 1, column \div 2>>].e, 8)
         THEN "horizontal" ELSE "non-valid"
    ELSE IF line % 2 = 0
    THEN IF ~Bit(board[<<line \div 2, column \div 2>>].e, 8)
         THEN "horizontal" ELSE "non-valid"
    ELSE IF column = 2 * COLUMNS
    THEN IF ~Bit(board[<<line \div 2, column \div 2 - 1>>].e, 4)
         THEN "vertical" ELSE "non-valid"
    ELSE IF ~Bit(board[<<line \div 2, column \div 2>>].e, 1)
         THEN "vertical" ELSE "non-valid"

find_relative_position(line, column, board) ==
    IF line = 2 * LINES
    THEN IF ~Bit(board[<<line \div 2 - 1, column \div 2>>].e, 2)
         THEN "horizontal" ELSE "non-valid"
    ELSE IF line % 2 = 0
    THEN IF ~Bit(board[<<line \div 2, column \div 2>>].e, 8)
         THEN "horizontal" ELSE "non-valid"
    ELSE IF column = 2 * COLUMNS
    THEN IF ~Bit(board[<<line \div 2, column \div 2 - 1>>].e, 4)
         THEN "vertical" ELSE "non-valid"
    ELSE IF ~Bit(board[<<line \div 2, column \div 2>>].e, 1)
         THEN "vertical" ELSE "non-valid"

\* [ok, game, msg]: the value returned, state.game afterwards, the text printed
check_position(line, column, g) ==
    IF line \in 0..(2 * LINES) /\ column \in 0..(2 * COLUMNS) /\ (line + column) % 2 = 1
    THEN LET direction == find_relative_position(line, column, g.board)
             l == line \div 2
             c == column \div 2
         IN  IF direction = "horizontal"
             THEN LET g1 == IF in_scope(l, c) THEN complete_box(g, 8, l, c, MIN) ELSE g
                      g2 == IF in_scope(l - 1, c)
                            THEN complete_box(g1, 2, l - 1, c, MIN) ELSE g1
                  IN  [ok |-> TRUE, game |-> g2, msg |-> ""]
             ELSE IF direction = "vertical"
             THEN LET g1 == IF in_scope(l, c) THEN complete_box(g, 1, l, c, MIN) ELSE g
                      g2 == IF in_scope(l, c - 1)
                            THEN complete_box(g1, 4, l, c - 1, MIN) ELSE g1
                  IN  [ok |-> TRUE, game |-> g2, msg |-> ""]
             ELSE [ok |-> FALSE, game |-> g, msg |-> "occupied"]
    ELSE [ok |-> FALSE, game |-> g, msg |-> "non-valid"]

\* what the human may type for a line or a column
InputLines   == (0 - 1)..(2 * LINES + 1)
InputColumns == (0 - 1)..(2 * COLUMNS + 1)

----------------------------------------------------------------------------
\* main with the human as the first player whatever the symbol
Init_human_first ==
    /\ \E d \in Dims : LINES = d[1] /\ COLUMNS = d[2]
    /\ MIN \in Symbols
    /\ MAX = IF MIN = "X" THEN "O" ELSE "X"
    /\ algorithm_type \in {"1", "2"}
    /\ depth \in 1..MaxDifficulty
    /\ game = NewGame
    /\ current_player = MIN
    /\ pc = "turn"
    /\ msg = ""
    /\ node = <<>>

\* main with a difficulty of 0 let through
Init_depth_zero ==
    /\ \E d \in Dims : LINES = d[1] /\ COLUMNS = d[2]
    /\ MIN \in Symbols
    /\ MAX = IF MIN = "X" THEN "O" ELSE "X"
    /\ algorithm_type \in {"1", "2"}
    /\ depth \in 0..MaxDifficulty
    /\ game = NewGame
    /\ current_player = "X"
    /\ pc = "turn"
    /\ msg = ""
    /\ node = <<>>

Init ==
    /\ \E d \in Dims : LINES = d[1] /\ COLUMNS = d[2]
    /\ MIN \in Symbols
    /\ MAX = IF MIN = "X" THEN "O" ELSE "X"
    /\ algorithm_type \in {"1", "2"}
    /\ depth \in 1..MaxDifficulty
    /\ game = NewGame
    /\ current_player = "X"
    /\ pc = "turn"
    /\ msg = ""
    /\ node = <<>>

live == State(game, current_player, depth)

(* run_algorithm, the human's branch: player_turn on one pair of inputs.   *)
(* A rejected pair leaves the loop of player_turn asking again.            *)
PlayerTurn(line, column) ==
    /\ pc = "turn"
    /\ current_player = MIN
    /\ line # 0 - 1 /\ column # 0 - 1
    /\ LET r == check_position(line, column, game)
       IN  /\ game' = r.game
           /\ msg' = r.msg
           /\ pc' = IF r.ok THEN "moved" ELSE "turn"
    /\ UNCHANGED <<config, current_player, node>>

(* player_turn returns None on -1: run_algorithm breaks out of the loop.   *)
PlayerQuit(line, column) ==
    /\ pc = "turn"
    /\ current_player = MIN
    /\ line = 0 - 1 \/ column = 0 - 1
    /\ pc' = "quit"
    /\ UNCHANGED <<config, game, current_player, msg, node>>

(* run_algorithm, the computer's branch: computer_turn.                    *)
ComputerTurn ==
    /\ pc = "turn"
    /\ current_player # MIN
    /\ node = <<>>
    /\ LET r == search(live, algorithm_type)
       IN  IF r.raised \/ r.next = <<>>
           THEN pc' = "crashed" /\ game' = game
           ELSE pc' = "moved" /\ game' = r.next[1].game
    /\ UNCHANGED <<config, current_player, msg, node>>

(* The end of the loop body: print_if_final, next_player, filled_box.      *)
\* the end of the loop body without the test of print_if_final
EndTurn_no_final ==
    /\ pc = "moved"
    /\ pc' = "turn"
    /\ current_player' = next_player(live)
    /\ game' = [game EXCEPT !.filled_box = FALSE]
    /\ UNCHANGED <<config, msg, node>>

EndTurn ==
    /\ pc = "moved"
    /\ pc' = IF is_final(game) THEN "done" ELSE "turn"
    /\ current_player' = next_player(live)
    /\ game' = [game EXCEPT !.filled_box = FALSE]
    /\ UNCHANGED <<config, msg, node>>

(* The search of the computer's turn, one call at a time: SearchCall is    *)
(* the call computer_turn makes on the live State, SearchDescend a call    *)
(* the search makes on a child.                                            *)
SearchCall ==
    /\ pc = "turn"
    /\ current_player # MIN
    /\ node = <<>>
    /\ node' = <<[state |-> live,
                  alpha |-> IF algorithm_type = "1" THEN 0 ELSE RootAlpha,
                  beta  |-> IF algorithm_type = "1" THEN 0 ELSE RootBeta]>>
    /\ UNCHANGED <<config, game, current_player, pc, msg>>

\* the calls the call n makes on its children: [state, alpha, beta]
Calls(n) ==
    IF is_leaf(n.state) THEN {}
    ELSE LET kids == State_moves(n.state)
         IN  IF algorithm_type = "1"
             THEN {[state |-> kids[k], alpha |-> 0, beta |-> 0] : k \in 1..Len(kids)}
             ELSE LET made == alpha_beta(n.alpha, n.beta, n.state).calls
                  IN  {[state |-> kids[k], alpha |-> made[k][1], beta |-> made[k][2]] :
                          k \in 1..Len(made)}

SearchDescend ==
    /\ node # <<>>
    /\ \E c \in Calls(node[1]) : node' = <<c>>
    /\ UNCHANGED <<config, game, current_player, pc, msg>>

Turn ==
    \/ \E line \in InputLines, column \in InputColumns : PlayerTurn(line, column)
    \/ \E line \in InputLines, column \in InputColumns : PlayerQuit(line, column)
    \/ ComputerTurn
    \/ EndTurn

Next == Turn \/ SearchCall \/ SearchDescend

Spec == Init /\ [][Next]_vars
----------------------------------------------------------------------------
(* run_algorithm on its own, as it is scheduled: the loop is sequential,   *)
(* so a computer's turn that is due is played (the search tree is finite)  *)
(* and the end of the loop body is run; the human is taken to enter,       *)
(* sooner or later, a pair that check_position accepts (or -1).  The only  *)
(* steps are those of Turn, so a ComputerPlays step is a ComputerTurn step *)
(* that did not raise.                                                     *)

AcceptedTurn ==
    \E line \in InputLines, column \in InputColumns :
        PlayerTurn(line, column) /\ pc' = "moved"

\* a computer's turn that ends with one of the root's moves committed
ComputerPlays ==
    /\ pc = "turn" /\ current_player # MIN /\ node = <<>>
    /\ \E k \in 1..Len(State_moves(live)) : game' = State_moves(live)[k].game
    /\ pc' = "moved"
    /\ UNCHANGED <<config, current_player, msg, node>>

TurnLoop ==
    /\ Init
    /\ [][Turn]_vars
    /\ WF_vars(ComputerPlays)
    /\ WF_vars(EndTurn)
    /\ WF_vars(AcceptedTurn)

----------------------------------------------------------------------------
(* The placement functions on their own: from the board of a new game,     *)
(* any segment is drawn by any player, through add_segment (the move       *)
(* generator's way) or through check_position (the human's way, always     *)
(* for MIN), in any order.                                                 *)

Place(d, i, j, player) ==
    /\ add_segment(game, d, i, j, player) # <<>>
    /\ game' = add_segment(game, d, i, j, player)[1]
    /\ UNCHANGED <<config, current_player, pc, msg, node>>

PlaceChecked(line, column) ==
    /\ check_position(line, column, game).ok
    /\ game' = check_position(line, column, game).game
    /\ UNCHANGED <<config, current_player, pc, msg, node>>

NextPlacements ==
    \/ \E d \in {Up, Left, Right, Down}, b \in Boxes, player \in Symbols :
          Place(d, b[1], b[2], player)
    \/ \E line \in InputLines, column \in InputColumns : PlaceChecked(line, column)

Placements == Init /\ [][NextPlacements]_vars

----------------------------------------------------------------------------
(* Vocabulary of the properties *)

Other(p) == IF p = "X" THEN "O" ELSE "X"

AllEdges(e) == Bit(e, 8) /\ Bit(e, 4) /\ Bit(e, 2) /\ Bit(e, 1)

\* the segments, as positions of the dot lattice: <<line, column>>, one odd
Segments ==
    {sg \in (0..(2 * LINES)) \X (0..(2 * COLUMNS)) : (sg[1] + sg[2]) % 2 = 1}

\* the segment that is side d of box b
SegAt(b, d) ==
    IF d = 8 THEN <<2 * b[1], 2 * b[2] + 1>>
    ELSE IF d = 2 THEN <<2 * b[1] + 2, 2 * b[2] + 1>>
    ELSE IF d = 1 THEN <<2 * b[1] + 1, 2 * b[2]>>
    ELSE <<2 * b[1] + 1, 2 * b[2] + 2>>

Sides == {8, 4, 2, 1}

\* the segments some box of g records as drawn
Drawn(g) ==
    UNION {{SegAt(b, d) : d \in {x \in Sides : Bit(g.board[b].e, x)}} : b \in Boxes}

\* the boxes all of whose sides are drawn
Closed(g) == {b \in Boxes : AllEdges(g.board[b].e)}

OwnedBy(g, p) == {b \in Boxes : g.board[b].o = p}

Total(g) == g.score_min + g.score_max

\* the Game object a state is about: the game of the search call that is
\* followed, or the live game when no search is followed (every live game is
\* met in such a state: the state the search is entered from)
Games == IF node = <<>> THEN {game} ELSE {node[1].state.game}

\* a step of the live game that draws a segment
LivePlacement == Drawn(game') # Drawn(game)

\* a step from a search call to a call on one of its children
Descent == node # <<>> /\ node' # <<>> /\ node' # node

\* a step that starts following a search
Entered == node = <<>> /\ node' # <<>>

----------------------------------------------------------------------------
(* C1: in the live game and in every search node a box has an owner iff   *)
(* its four sides are drawn; a box that gets an owner gets the player who  *)
(* drew the segment that closed it, and an owner never changes.            *)

OwnerIffClosed(g) ==
    \A b \in Boxes : (g.board[b].o # " ") <=> AllEdges(g.board[b].e)

OwnersKept(g, g2, p) ==
    \A b \in Boxes :
        IF g.board[b].o # " " THEN g2.board[b].o = g.board[b].o
        ELSE g2.board[b].o # " " => (g2.board[b].o = p /\ ~AllEdges(g.board[b].e))

C1_OwnerIffClosed ==
    /\ [](\A g \in Games : OwnerIffClosed(g))
    /\ [][/\ OwnersKept(game, game', current_player)
          /\ Descent => OwnersKept(node[1].state.game, node'[1].state.game,
                                   node[1].state.current_player)
          /\ Entered => node'[1].state.game = game]_vars

\* a search node two placements below the live game, in which the computer
\* owns a box it does not own in the live game
C1_Witness ==
    /\ node # <<>>
    /\ OwnedBy(node[1].state.game, MAX) # OwnedBy(game, MAX)
    /\ node[1].state.depth = depth - 2

----------------------------------------------------------------------------
(* C2: score_min + score_max never exceeds LINES * COLUMNS, each score is  *)
(* the number of boxes that carry the player's symbol, and the sum never   *)
(* decreases and changes only in a step that draws a segment.              *)

ScoresCount(g) ==
    /\ g.score_min = Cardinality(OwnedBy(g, MIN))
    /\ g.score_max = Cardinality(OwnedBy(g, MAX))
    /\ Total(g) <= LINES * COLUMNS

SumGrows(g, g2) ==
    /\ Total(g2) >= Total(g)
    /\ Total(g2) # Total(g) => Cardinality(Drawn(g2)) > Cardinality(Drawn(g))

C2_Scores ==
    /\ [](\A g \in Games : ScoresCount(g))
    /\ [][/\ SumGrows(game, game')
          /\ Descent => SumGrows(node[1].state.game, node'[1].state.game)
          /\ Entered => Total(node'[1].state.game) = Total(game)]_vars

\* both players own a box in the live game and the search node owns one more
C2_Witness ==
    /\ game.score_min > 0
    /\ node # <<>>
    /\ node[1].state.game.score_max > game.score_max

----------------------------------------------------------------------------
(* C3: boxes on the two sides of a segment agree on it (right bit = left   *)
(* bit of the right neighbour, down bit = up bit of the lower neighbour),  *)
(* and every segment encoding stays within 0..15.                          *)

Agree(g) ==
    \A b \in Boxes :
        /\ g.board[b].e \in 0..15
        /\ in_scope(b[1], b[2] + 1) =>
              (Bit(g.board[b].e, 4) <=> Bit(g.board[<<b[1], b[2] + 1>>].e, 1))
        /\ in_scope(b[1] + 1, b[2]) =>
              (Bit(g.board[b].e, 2) <=> Bit(g.board[<<b[1] + 1, b[2]>>].e, 8))

C3_SharedSegments == \A g \in Games : Agree(g)

\* the segments that lie between two boxes
Shared ==
    {sg \in Segments :
        Cardinality({b \in Boxes : \E d \in Sides : SegAt(b, d) = sg}) = 2}

\* after a move of the human the search has generated a move that draws a
\* segment between two boxes
C3_Witness ==
    /\ node # <<>>
    /\ game.last_segment.player = MIN
    /\ (Drawn(node[1].state.game) \ Drawn(game)) \cap Shared # {}

----------------------------------------------------------------------------
(* C4: with D of the E = 2*LINES*COLUMNS + LINES + COLUMNS segments drawn, *)
(* Game.moves yields exactly E - D games, one per undrawn segment and no   *)
(* segment twice; each differs from the input by that one new segment and  *)
(* the owners it causes (owners present stay); a drawn segment yields None.*)

Successors(g, p) ==
    LET ms == Game_moves(g, p)
    IN  {ms[n][1] : n \in {k \in 1..Len(ms) : ms[k] # <<>>}}

\* the segment the n-th position of the generator stands for
SegOfPos(n) ==
    LET p == MovePos(n) IN SegAt(<<p[2], p[3]>>, p[1][1])

\* m is g with the segment sg drawn in every box it is a side of, and
\* nothing else drawn or erased
OneMore(g, m, sg) ==
    \A b \in Boxes :
        /\ m.board[b].e \in 0..15
        /\ \A d \in Sides :
              Bit(m.board[b].e, d) <=> (Bit(g.board[b].e, d) \/ SegAt(b, d) = sg)

MovesExact(g, p) ==
    LET D  == Drawn(g)
        E  == 2 * LINES * COLUMNS + LINES + COLUMNS
        ms == Game_moves(g, p)
        ok == {k \in 1..Len(ms) : ms[k] # <<>>}
    IN  /\ Cardinality(Segments) = E
        /\ Len(ms) = E
        /\ {SegOfPos(n) : n \in 1..E} = Segments
        /\ Cardinality(ok) = E - Cardinality(D)
        /\ \A n \in 1..E :
              LET sg == SegOfPos(n)
              IN  IF sg \in D THEN n \notin ok
                  ELSE /\ n \in ok
                       /\ OneMore(g, ms[n][1], sg)
                       /\ OwnersKept(g, ms[n][1], p)

C4_LegalMoves == \A g \in Games : \A p \in Symbols : MovesExact(g, p)

\* the search expands a node that has drawn and undrawn segments
C4_Witness ==
    /\ node # <<>>
    /\ ~is_leaf(node[1].state)
    /\ Cardinality(Drawn(node[1].state.game)) >= 2
    /\ node[1].state.depth < depth

----------------------------------------------------------------------------
(* C5: every game Game.moves returns has filled_box true iff the segment   *)
(* placed to produce it closed at least one box, and its last_segment      *)
(* names the moving player.  Stated of the calls the search makes: the     *)
(* State expanded is the one the followed call works on.                   *)

FlagReflectsPlacement(g, p) ==
    \A m \in Successors(g, p) :
        /\ m.filled_box <=> (Closed(m) # Closed(g))
        /\ m.last_segment.set /\ m.last_segment.player = p

C5_FlagReflectsPlacement ==
    (node # <<>> /\ ~is_leaf(node[1].state))
        => FlagReflectsPlacement(node[1].state.game, node[1].state.current_player)

----------------------------------------------------------------------------
(* C6: a placement raises the score of the player who draws by the number  *)
(* of boxes it closes (0, 1 or 2) and leaves the other score alone; every  *)
(* box next to the new segment whose other three sides were drawn is       *)
(* closed and owned by that player, and filled_box is true then.           *)

ScoreOf(g, p) == IF p = MIN THEN g.score_min ELSE g.score_max

\* the boxes that have sg as a side and the three other sides drawn in g
OneSideMissing(g, sg) ==
    {b \in Boxes : \E d \in Sides :
        /\ SegAt(b, d) = sg
        /\ ~Bit(g.board[b].e, d)
        /\ \A d2 \in Sides \ {d} : Bit(g.board[b].e, d2)}

PlacementScores(g, g2, p) ==
    LET new == Closed(g2) \ Closed(g)
        k   == Cardinality(new)
    IN  /\ k \in 0..2
        /\ ScoreOf(g2, p) = ScoreOf(g, p) + k
        /\ ScoreOf(g2, Other(p)) = ScoreOf(g, Other(p))
        /\ k > 0 => g2.filled_box
        /\ \A b \in new : g2.board[b].o = p
        /\ \A sg \in Drawn(g2) \ Drawn(g) : OneSideMissing(g, sg) = new

C6_PlacementScores ==
    [][/\ LivePlacement => PlacementScores(game, game', current_player)
       /\ Descent => PlacementScores(node[1].state.game, node'[1].state.game,
                                     node[1].state.current_player)]_vars

\* the search has generated, from the live game, a move that closes two boxes
C6_Witness ==
    /\ node # <<>>
    /\ node[1].state.depth = depth - 1
    /\ Cardinality(Closed(node[1].state.game) \ Closed(game)) = 2
    /\ node[1].state.game.filled_box

----------------------------------------------------------------------------
(* C7: in the turn loop filled_box is true after a placement iff the       *)
(* placement closed a box, and when the game goes on the next turn is the  *)
(* same player's if it did and the other player's if it did not.           *)

C7_NextTurn ==
    [][/\ LivePlacement =>
             /\ pc' = "moved"
             /\ game'.filled_box <=> (Closed(game') # Closed(game))
       /\ (pc = "moved" /\ pc' = "turn") =>
             current_player' = IF game.filled_box THEN current_player
                               ELSE Other(current_player)]_vars

\* the computer is to move again after a placement of its own that closed a box
C7_Witness ==
    /\ pc = "turn"
    /\ current_player = MAX
    /\ game.last_segment.player = MAX
    /\ game.score_max > 0
    /\ ~is_final(game)

----------------------------------------------------------------------------
(* C8 as stated: the first turn is the human's (MIN), so the computer      *)
(* never draws the first segment.                                          *)

C8_HumanFirst ==
    /\ Drawn(game) = {} => current_player = MIN
    /\ Cardinality(Drawn(game)) = 1 => game.last_segment.player = MIN

(* C8 amended: the first turn is the turn of the player whose symbol is X  *)
(* (the human iff the human chose X), and Game.MIN and Game.MAX never      *)
(* change.                                                                 *)

C8_XFirst ==
    /\ [](/\ Drawn(game) = {} => current_player = "X"
          /\ Cardinality(Drawn(game)) = 1 => game.last_segment.player = "X"
          /\ MIN \in Symbols /\ MAX = Other(MIN))
    /\ [][MIN' = MIN /\ MAX' = MAX]_vars

\* the computer has drawn the first segment of the game
C8_Witness ==
    /\ Cardinality(Drawn(game)) = 1
    /\ game.last_segment.player = MAX
    /\ pc = "moved"

----------------------------------------------------------------------------
(* C9: final reports "not final" exactly when the scores do not add up to  *)
(* LINES * COLUMNS; otherwise MIN iff score_min > score_max, MAX iff       *)
(* score_max > score_min, a tie iff they are equal.  Checked on the games  *)
(* reached and on every pair of scores put in their place.                 *)

FinalExact(g) ==
    LET f == final(g)
    IN  /\ (f = "False") <=> (g.score_min + g.score_max # LINES * COLUMNS)
        /\ f # "False" =>
              /\ (f = MIN) <=> (g.score_min > g.score_max)
              /\ (f = MAX) <=> (g.score_max > g.score_min)
              /\ (f = "tie") <=> (g.score_min = g.score_max)

C9_Final ==
    \A g \in Games :
        /\ FinalExact(g)
        /\ \A sm \in 0..(LINES * COLUMNS), sx \in 0..(LINES * COLUMNS) :
              FinalExact([g EXCEPT !.score_min = sm, !.score_max = sx])

\* the loop has ended on a tie
C9_Witness ==
    /\ pc = "done"
    /\ game.score_min = game.score_max
    /\ final(game) = "tie"

----------------------------------------------------------------------------
(* C10: estimate_score is 100000 on a final game won by MAX, -100000 on    *)
(* one won by MIN and 0 on a tie, with either heuristic; on a game that is *)
(* not final it is open_boxes(MAX) - open_boxes(MIN), of absolute value    *)
(* below 100000 (and it raises when open_boxes raises).                    *)

Variants == {1, 2}

EstimateExact(var, g) ==
    LET est  == estimate_score_var(var, g)
        f    == final(g)
        hmax == open_boxes_var(var, g, MAX)
        hmin == open_boxes_var(var, g, MIN)
    IN  /\ f = MAX => est = <<100000>>
        /\ f = MIN => est = <<0 - 100000>>
        /\ f = "tie" => est = <<0>>
        /\ f = "False" =>
              IF hmax = <<>> \/ hmin = <<>> THEN est = <<>>
              ELSE /\ est = <<hmax[1] - hmin[1]>>
                   /\ est[1] < 100000 /\ est[1] > 0 - 100000

----------------------------------------------------------------------------
(* The States a search is run on in the properties below: the State of the *)
(* search call that is followed, or the live State when none is followed.  *)
Roots == IF node = <<>> THEN {live} ELSE {node[1].state}

(* C11: run on the same State (same game, player and depth), min_max and   *)
(* alpha_beta with the window of computer_turn choose the same next_state  *)
(* and give the State the same score.                                      *)

SameChoice(s) ==
    LET m == min_max(s)
        a == alpha_beta(RootAlpha, RootBeta, s)
    IN  /\ m.raised = a.raised
        /\ m.scored = a.scored
        /\ m.score = a.score
        /\ m.next = a.next

C11_SameChoice == \A s \in Roots : SameChoice(s)

\* the computer is to move with two moves ahead, and both searches choose a
\* child that is not the first move generated
C11_Witness ==
    /\ pc = "turn" /\ current_player = MAX /\ node = <<>>
    /\ depth >= 2
    /\ LET m == min_max(live)
           a == alpha_beta(RootAlpha, RootBeta, live)
       IN  /\ m.next # <<>> /\ a.next = m.next
           /\ m.next[1] # State_moves(live)[1]

----------------------------------------------------------------------------
(* C12: run on the same State, alpha_beta scores no more States than       *)
(* min_max does.                                                           *)

C12_NoMoreNodes ==
    \A s \in Roots :
        alpha_beta(RootAlpha, RootBeta, s).visited <= min_max(s).visited

\* a search of the computer's turn that scores more than a hundred States
C12_Witness ==
    /\ pc = "turn" /\ current_player = MAX /\ node = <<>>
    /\ alpha_beta(RootAlpha, RootBeta, live).visited > 100
    /\ min_max(live).visited > 100

----------------------------------------------------------------------------
(* C13: min_max and alpha_beta called with depth 0 on a game that is not   *)
(* final (the empty board of a new game included), or with any depth on a  *)
(* final game, return normally: no moves generated, no next_state, and the *)
(* score estimate_score gives the game.                                    *)

Degenerate(r, g) ==
    /\ ~r.raised
    /\ r.moves = 0
    /\ r.next = <<>>
    /\ r.scored
    /\ estimate_score(g) = <<r.score>>

DegenerateAt(g, p, dp) ==
    /\ Degenerate(min_max(State(g, p, dp)), g)
    /\ Degenerate(alpha_beta(RootAlpha, RootBeta, State(g, p, dp)), g)

C13_DegenerateSearch ==
    \A g \in Games : \A p \in Symbols :
        IF is_final(g) THEN \A dp \in 0..MaxDifficulty : DegenerateAt(g, p, dp)
        ELSE DegenerateAt(g, p, 0)

----------------------------------------------------------------------------
(* C14: check_position accepts a pair (line, column) iff                   *)
(* 0 <= line <= 2*LINES, 0 <= column <= 2*COLUMNS, exactly one of the two  *)
(* is odd and the segment there is not drawn; an accepted pair draws that  *)
(* segment and no other, for MIN; a rejected pair is reported and leaves   *)
(* the game (board, scores, filled_box, last_segment) as it was.           *)

ValidPair(line, column, g) ==
    /\ 0 <= line /\ line <= 2 * LINES
    /\ 0 <= column /\ column <= 2 * COLUMNS
    /\ (line % 2 = 1) # (column % 2 = 1)
    /\ <<line, column>> \notin Drawn(g)

PositionChecked(line, column, g) ==
    LET r == check_position(line, column, g)
    IN  /\ r.ok <=> ValidPair(line, column, g)
        /\ r.ok =>
              /\ Drawn(r.game) = Drawn(g) \cup {<<line, column>>}
              /\ OneMore(g, r.game, <<line, column>>)
              /\ OwnersKept(g, r.game, MIN)
              /\ r.game.last_segment.set /\ r.game.last_segment.player = MIN
        /\ ~r.ok => (r.game = g /\ r.msg \in {"occupied", "non-valid"})

C14_CheckPosition ==
    /\ [](\A line \in InputLines, column \in InputColumns :
             PositionChecked(line, column, game))
    /\ [][(pc = "turn" /\ current_player = MIN /\ pc' # "quit") =>
             /\ msg' # "" => (game' = game /\ pc' = "turn")
             /\ game' # game =>
                   /\ msg' = "" /\ pc' = "moved"
                   /\ Cardinality(Drawn(game') \ Drawn(game)) = 1
                   /\ Drawn(game) \subseteq Drawn(game')]_vars

\* the human, playing again after a placement of their own, has entered a
\* segment that is drawn already and is asked again
C14_Witness ==
    /\ pc = "turn" /\ current_player = MIN
    /\ msg = "occupied"
    /\ game.last_segment.player = MIN

----------------------------------------------------------------------------
(* C15: a search leaves the game of the State it runs on as it was, and    *)
(* generating or scoring a node changes neither its parent's game nor a    *)
(* sibling's; the live game changes only when a turn is played (the        *)
(* computer's: the chosen child is committed).  The search touches Game    *)
(* objects through Game.moves, final and estimate_score only; final and    *)
(* open_boxes_1 read, Game.moves and open_boxes_2 work on deep copies.     *)

\* the games the references of a list of moves stand for
Deref(store, moves) ==
    [n \in 1..Len(moves) |->
        IF moves[n] = <<>> THEN <<>> ELSE <<store[moves[n][1]]>>]

\* Game.moves on g leaves g alone and returns new objects, all different,
\* holding the games of Game_moves
MovesCopy(g, p) ==
    LET r    == Game_moves_at(<<g>>, 1, p)
        refs == {n \in 1..Len(r.moves) : r.moves[n] # <<>>}
    IN  /\ r.store[1] = g
        /\ \A n \in refs : r.moves[n][1] # 1
        /\ \A n \in refs, k \in refs : r.moves[n] = r.moves[k] => n = k
        /\ Deref(r.store, r.moves) = Game_moves(g, p)

\* expanding or scoring a child leaves the parent and the siblings alone
KidsApart(g, p) ==
    LET r == Game_moves_at(<<g>>, 1, p)
    IN  \A n \in {k \in 1..Len(r.moves) : r.moves[k] # <<>>} : \A q \in Symbols :
            LET kid == r.moves[n][1]
                s1  == Game_moves_at(r.store, kid, q).store
                s2  == open_boxes_2_at(r.store, kid, q)
            IN  \A x \in 1..Len(r.store) : s1[x] = r.store[x] /\ s2[x] = r.store[x]

C15_SearchFrame ==
    /\ [](\A g \in Games :
             /\ \A p \in Symbols : MovesCopy(g, p) /\ open_boxes_2_at(<<g>>, 1, p)[1] = g
             /\ KidsApart(g, IF node = <<>> THEN current_player
                             ELSE node[1].state.current_player))
    /\ [][/\ node' # node => game' = game
          /\ game' # game =>
                \/ pc = "moved" /\ game' = [game EXCEPT !.filled_box = FALSE]
                \/ /\ pc = "turn" /\ pc' = "moved" /\ node = <<>>
                   /\ current_player = MAX =>
                         \E k \in 1..Len(State_moves(live)) :
                             game' = State_moves(live)[k].game]_vars

\* a followed search call has a child whose scoring by open_boxes_2 draws
\* segments on its copy
C15_Witness ==
    /\ node # <<>>
    /\ ~is_leaf(node[1].state)
    /\ LET r == Game_moves_at(<<node[1].state.game>>, 1, node[1].state.current_player)
       IN  \E n \in 1..Len(r.moves) :
              /\ r.moves[n] # <<>>
              /\ LET s2 == open_boxes_2_at(r.store, r.moves[n][1], MAX)
                 IN  s2[Len(s2)] # r.store[r.moves[n][1]]

----------------------------------------------------------------------------
(* C16: whatever the order in which the four sides of a box are drawn,     *)
(* whoever draws them and whatever is drawn around it, the box has no      *)
(* owner while fewer than four sides are drawn, and the placement that     *)
(* draws its fourth side makes the player of that placement its owner,     *)
(* for good.  Under Placements every order of every set of segments is     *)
(* run, each segment by either player.                                     *)

SidesDrawn(g, b) == Cardinality({d \in Sides : Bit(g.board[b].e, d)})

\* the step from g to g2 is a placement by p as far as owners go
FourthSideOwns(g, g2, p) ==
    \A b \in Boxes :
        /\ SidesDrawn(g2, b) < 4 => g2.board[b].o = " "
        /\ (SidesDrawn(g, b) = 3 /\ SidesDrawn(g2, b) = 4) => g2.board[b].o = p
        /\ SidesDrawn(g, b) = 4 => g2.board[b].o = g.board[b].o

C16_FourthSideOwns ==
    /\ [](\A b \in Boxes : (SidesDrawn(game, b) < 4) <=> (game.board[b].o = " "))
    /\ [][/\ \A d \in {Up, Left, Right, Down}, b \in Boxes, player \in Symbols :
                Place(d, b[1], b[2], player) => FourthSideOwns(game, game', player)
          /\ \A line \in InputLines, column \in InputColumns :
                PlaceChecked(line, column) => FourthSideOwns(game, game', MIN)]_vars

\* one box is owned by MAX, its neighbour by MIN, and MAX drew last
C16_Witness ==
    /\ \E b \in Boxes : game.board[b].o = MAX
    /\ \E b \in Boxes : game.board[b].o = MIN
    /\ game.last_segment.player = MAX

----------------------------------------------------------------------------
(* C17: in both searches and at every depth, a child State's               *)
(* current_player is its parent's when the move that produced the child    *)
(* closed at least one box, and the other player when it closed none.      *)

ChildPlayers(s) ==
    LET kids == State_moves(s)
    IN  \A k \in 1..Len(kids) :
            kids[k].current_player =
                IF Closed(kids[k].game) # Closed(s.game) THEN s.current_player
                ELSE Other(s.current_player)

\* stated of the States a search expands: the State of a call that is followed
C17_ChildPlayer ==
    (node # <<>> /\ ~is_leaf(node[1].state)) => ChildPlayers(node[1].state)

----------------------------------------------------------------------------
(* C18: at an alpha-beta node that is expanded, after each child is scored *)
(* alpha becomes max(alpha, best score so far) when the node's player is   *)
(* MAX and beta becomes min(beta, best score so far) when it is MIN, and   *)
(* the children left are skipped as soon as alpha >= beta.  Stated of the  *)
(* window each child is called with: it is the window left by the          *)
(* children before it.                                                     *)

RECURSIVE BestOf(_, _, _)
\* the best of the scores sc[1..k] for the player p
BestOf(sc, k, p) ==
    IF k = 1 THEN sc[1]
    ELSE IF p = MAX THEN Maximum(BestOf(sc, k - 1, p), sc[k])
    ELSE Minimum(BestOf(sc, k - 1, p), sc[k])

WindowsAsClaimed(n) ==
    LET s    == n.state
        kids == State_moves(s)
        made == alpha_beta(n.alpha, n.beta, s).calls
        sc   == [k \in 1..Len(made) |->
                    alpha_beta(made[k][1], made[k][2], kids[k]).score]
        \* the window after child k
        after(k) ==
            IF s.current_player = MAX
            THEN <<Maximum(made[k][1], BestOf(sc, k, MAX)), made[k][2]>>
            ELSE <<made[k][1], Minimum(made[k][2], BestOf(sc, k, MIN))>>
    IN  /\ Len(made) >= 1
        /\ made[1] = <<n.alpha, n.beta>>
        /\ \A k \in 1..Len(made) :
              IF after(k)[1] >= after(k)[2] THEN k = Len(made)
              ELSE IF k < Len(made) THEN made[k + 1] = after(k)
              ELSE k = Len(kids)

C18_WindowUpdate ==
    (node # <<>> /\ algorithm_type = "2" /\ ~is_leaf(node[1].state))
        => WindowsAsClaimed(node[1])

----------------------------------------------------------------------------
(* C19: min_max gives a State that is expanded (depth > 0, game not final) *)
(* the maximum of its children's scores when its player is MAX and the     *)
(* minimum when it is MIN, and as next_state the first child, in the order *)
(* of the move generator, that has that score; a State at depth 0 or with  *)
(* a final game gets estimate_score of its game and no next_state.         *)

MinMaxExact(s) ==
    LET r == min_max(s)
    IN  IF is_leaf(s)
        THEN /\ r.next = <<>> /\ r.moves = 0
             /\ r.scored /\ <<r.score>> = estimate_score(s.game)
        ELSE LET kids   == State_moves(s)
                 sc     == [k \in 1..Len(kids) |-> min_max(kids[k]).score]
                 scores == {sc[k] : k \in 1..Len(kids)}
                 best   == IF s.current_player = MAX
                           THEN CHOOSE x \in scores : \A y \in scores : x >= y
                           ELSE CHOOSE x \in scores : \A y \in scores : x <= y
                 first  == CHOOSE k \in 1..Len(kids) :
                              /\ sc[k] = best
                              /\ \A j \in 1..(k - 1) : sc[j] # best
             IN  /\ r.scored /\ r.score = best
                 /\ r.next = <<kids[first]>>
                 /\ r.moves = Len(kids)

C19_MinMax == \A s \in Roots : MinMaxExact(s)

\* a State expanded by a followed call has its best score at two children
\* or more, the first of them, which is not the first move generated, chosen
C19_Witness ==
    /\ node # <<>>
    /\ ~is_leaf(node[1].state)
    /\ node[1].state.depth >= 2
    /\ LET s    == node[1].state
           r    == min_max(s)
           kids == State_moves(s)
       IN  /\ r.next # <<>> /\ r.next[1] # kids[1]
           /\ \E k \in 1..Len(kids) :
                 kids[k] # r.next[1] /\ min_max(kids[k]).score = r.score

----------------------------------------------------------------------------
(* C20: the turn loop ends, unless the human enters -1, exactly when       *)
(* score_min + score_max = LINES * COLUMNS.  No turn starts from a final   *)
(* game; a turn draws exactly one new segment and nothing else draws one;  *)
(* when the loop has ended every one of the                                *)
(* 2*LINES*COLUMNS + LINES + COLUMNS segments is drawn, which makes that   *)
(* many turns; and with a human who keeps entering valid segments the loop *)
(* does end.                                                               *)

AtTurn ==
    /\ pc = "turn" => Total(game) # LINES * COLUMNS
    /\ pc = "done" =>
          /\ Total(game) = LINES * COLUMNS
          /\ Drawn(game) = Segments
          /\ Cardinality(Drawn(game)) = 2 * LINES * COLUMNS + LINES + COLUMNS
    /\ pc # "crashed"

OneSegmentATurn ==
    /\ (pc = "turn" /\ pc' = "moved") =>
          /\ Drawn(game) \subseteq Drawn(game')
          /\ Cardinality(Drawn(game')) = Cardinality(Drawn(game)) + 1
    /\ ~(pc = "turn" /\ pc' = "moved") => Drawn(game') = Drawn(game)
    /\ pc = "moved" => (pc' = "done" <=> Total(game) = LINES * COLUMNS)
    /\ pc' = "done" => pc = "moved"

C20_TurnLoop ==
    /\ []AtTurn
    /\ [][OneSegmentATurn]_vars
    /\ <>(pc = "done" \/ pc = "quit")

\* a game of two boxes played to the end, one box each
C20_Witness ==
    /\ pc = "done"
    /\ game.score_min = 1 /\ game.score_max = 1
    /\ Drawn(game) = Segments

----------------------------------------------------------------------------
(* C21: open_boxes_2 starts from the player's score and adds one for each  *)
(* box the player can close along the chain; when the player can close no  *)
(* box (no box has exactly three sides drawn) it returns the player's      *)
(* score.  Stated of the games estimate_score applies it to: the games of  *)
(* the States a search scores at depth 0.                                  *)

\* the boxes one placement would close
Closable(g) == {b \in Boxes : SidesDrawn(g, b) = 3}

ProspectiveScore(g, p) ==
    LET h == open_boxes_2(g, p)
    IN  /\ h # <<>>
        /\ h[1] >= ScoreOf(g, p)
        /\ Closable(g) = {} => h[1] = ScoreOf(g, p)

C21_ProspectiveScore ==
    (node # <<>> /\ is_leaf(node[1].state) /\ ~is_final(node[1].state.game))
        => \A p \in Symbols : ProspectiveScore(node[1].state.game, p)

----------------------------------------------------------------------------
(* C22: with the window (-5000, 5000) of computer_turn, every call of      *)
(* alpha_beta in every search has alpha <= -5000 and beta >= 5000; the     *)
(* test alpha >= beta of alpha_beta_state and the early return on          *)
(* alpha > beta never fire, and alpha_beta scores the States min_max       *)
(* scores.                                                                 *)

NeverCut(n) ==
    LET s    == n.state
        kids == State_moves(s)
        r    == alpha_beta(n.alpha, n.beta, s)
        made == r.calls
    IN  /\ n.alpha <= 0 - 5000 /\ n.beta >= 5000
        /\ ~(n.alpha > n.beta)
        /\ r.visited = min_max(s).visited
        /\ ~is_leaf(s) =>
              /\ Len(made) = Len(kids)
              /\ {c.state : c \in Calls(n)} = {kids[k] : k \in 1..Len(kids)}
              /\ \A k \in 1..Len(made) :
                    LET sc == alpha_beta(made[k][1], made[k][2], kids[k]).score
                    IN  ~Cutoff(NewAlpha(s, made[k][1], sc), NewBeta(s, made[k][2], sc))

C22_WindowNeverCuts == (node # <<>> /\ algorithm_type = "2") => NeverCut(node[1])

\* a call two plies down whose window has moved: alpha has fallen to the
\* score of a game MIN has won
C22_Witness ==
    /\ node # <<>> /\ algorithm_type = "2"
    /\ node[1].state.depth = depth - 2
    /\ node[1].alpha = 0 - WinScore
    /\ ~is_leaf(node[1].state)

----------------------------------------------------------------------------
(* C23: when the turn loop calls computer_turn, the live game is not       *)
(* final, a segment is left to draw and the depth is at least 1; the       *)
(* search returns with a list of children that is not empty and with a     *)
(* next_state that is one of them, so computer_turn never reads            *)
(* None.game.                                                              *)

SearchChooses ==
    LET r    == search(live, algorithm_type)
        kids == State_moves(live)
    IN  /\ ~is_final(game)
        /\ Drawn(game) # Segments
        /\ depth >= 1
        /\ ~r.raised /\ r.scored
        /\ r.moves >= 1 /\ r.moves = Len(kids)
        /\ r.next # <<>>
        /\ \E k \in 1..Len(kids) : r.next[1] = kids[k]

C23_SearchChooses ==
    /\ (pc = "turn" /\ current_player = MAX /\ node = <<>>) => SearchChooses
    /\ pc # "crashed"

\* the computer is to draw the last segment of a game of two boxes
C23_Witness ==
    /\ pc = "turn" /\ current_player = MAX /\ node = <<>>
    /\ LINES * COLUMNS = 2
    /\ Cardinality(Segments \ Drawn(game)) = 1
    /\ search(live, algorithm_type).next # <<>>

====
